---- MODULE Spec2Model ----
(***************************************************************************)
(* Valuation analytics of richslow: calculate_beta, calculate_wacc and     *)
(* calculate_valuation_suite (app/services/service_valuation.py) and the   *)
(* three HTTP handlers that call them (app/routes/route_valuation.py).     *)
(*                                                                         *)
(* The industry benchmark batch (app/services/service_industry_benchmark.py)*)
(* is a second, independent component.                                     *)
(*                                                                         *)
(* The variables but assumptions, fetched and bench are the local          *)
(* variables of the functions that serve one valuation request.  pc is the *)
(* position of the request in the code, stack holds the return addresses   *)
(* of the calls in progress, exc is the exception in flight (its cause     *)
(* chain, outermost first).  fetched is the log of the price histories the *)
(* request has asked of the provider.  An optional value (None or a value) *)
(* is a sequence of length 0 or 1.  Rates are integers in units of 1/1000  *)
(* (0.035 is 35); a ratio of two amounts is a fraction [num, den].  A      *)
(* float computed from returns is held to three decimals (1.25 is 1250) or *)
(* is nan.                                                                 *)
(*                                                                         *)
(* Spec serves requests one after another from a provider whose quotes     *)
(* vary from day to day; BetaSpec serves /beta requests with any dates,    *)
(* for a stock or for the benchmark itself, from a provider whose feed may *)
(* be traded, stale or steadily rising and may send its rows in any order; *)
(* Concurrent is Spec with other requests in progress at the same time;    *)
(* BenchmarkSpec serves industry benchmark requests.                       *)
(*                                                                         *)
(* The external provider (vnstock Quote / Finance) is the environment: a   *)
(* fetch either raises or returns data chosen from the bounded sets below. *)
(* A price history has one row per trading day with a positive close and   *)
(* no date twice.                                                          *)
(***************************************************************************)
EXTENDS Integers, Sequences, FiniteSets, TLC

\* ---------------------------------------------------------------- bounds
\* last calendar day of the requested window (days are numbered 1..MaxDate)
MaxDate == 32
\* a request's start_date is one of 1..MaxStart
MaxStart == 2
\* every HolidayStride-th day may be missing from an instrument's history
HolidayStride == 15
\* the ratio feed has at most MaxPeriods reporting periods
MaxPeriods == 2

\* ----------------------------------------------------- program constants
VIETNAM_CORPORATE_TAX_RATE == 200
VIETNAM_RISK_FREE_RATE == 35
VIETNAM_MARKET_RISK_PREMIUM == 50
DEFAULT_CREDIT_SPREAD == 25
\* len(aligned) < 30
MinAlignedRows == 30
\* len(returns) < 30
MinReturnRows == 30
\* "min_trading_days_needed": 30 and the docstring of calculate_beta
DocumentedMinTradingDays == 30
\* companies_in_industry[:20]
CompanyLimit == 20
\* len(values) >= 3
MinValues == 3
\* min_companies: int = 5
DefaultMinCompanies == 5

None == <<>>
Some(v) == <<v>>

Tickers == {"FPT"}
MarketSymbol == "VNINDEX"

\* ------------------------------------------------------- provider inputs
HolidayDates == {d \in 1..MaxDate : d % HolidayStride = 0}

\* the close the provider quotes for a symbol on a day
ClosePrice(symbol, d) ==
    IF symbol = MarketSymbol THEN 1000 + ((d * d) % 7) ELSE 100 + ((d * 3) % 5)

Reverse(s) == [i \in 1..Len(s) |-> s[Len(s) + 1 - i]]

\* the rows at the even positions, last to first, then those at the odd
\* positions, first to last
Shuffle(s) ==
    LET evens == SelectSeq([i \in 1..Len(s) |-> i], LAMBDA i : i % 2 = 0)
        odds == SelectSeq([i \in 1..Len(s) |-> i], LAMBDA i : i % 2 = 1)
    IN  [i \in 1..Len(s) |->
            IF i <= Len(evens) THEN s[evens[Len(evens) + 1 - i]]
            ELSE s[odds[i - Len(evens)]]]

\* Quote(symbol).history(start, end, "1D"): one row per trading day of the
\* window that is no holiday of the symbol, in the order the provider sends
History(symbol, start, holidays, order) ==
    LET window == [i \in 1..(MaxDate + 1 - start) |-> start + i - 1]
        days == SelectSeq(window, LAMBDA d : d \notin holidays)
        rows == [i \in 1..Len(days) |->
                    [time |-> days[i], close |-> ClosePrice(symbol, days[i])]]
    IN  IF order = "asc" THEN rows
        ELSE IF order = "desc" THEN Reverse(rows)
        ELSE Shuffle(rows)

\* the same window from a feed that has gone stale: every trading day
\* repeats the close of the first day of the window
StaleHistory(symbol, start, holidays, order) ==
    LET rows == History(symbol, start, holidays, order)
    IN  [i \in 1..Len(rows) |-> [rows[i] EXCEPT !.close = ClosePrice(symbol, start)]]

\* a close that rises by the same rate every day with no noise, quoted in
\* whole price steps: the stock by 0.2% a day, the benchmark by half of
\* that, 0.1% (returns are held to 1/1000, so these are the smallest rates
\* of ratio two to one that the statistics can tell apart)
RECURSIVE SteadyClose(_, _)
SteadyClose(symbol, d) ==
    IF d <= 1 THEN 10000
    ELSE LET prev == SteadyClose(symbol, d - 1)
             rate == IF symbol = MarketSymbol THEN 1 ELSE 2
         IN  prev + ((prev * rate + 999) \div 1000)

\* the window of a steadily rising instrument
SteadyHistory(symbol, start, holidays, order) ==
    LET rows == History(symbol, start, holidays, order)
    IN  [i \in 1..Len(rows) |->
            [rows[i] EXCEPT !.close = SteadyClose(symbol, rows[i].time)]]

\* the condition of the provider's quote feed
Feeds == {"traded", "stale", "steady"}

QuoteHistory(symbol, start, holidays, order, feed) ==
    IF feed = "stale" THEN StaleHistory(symbol, start, holidays, order)
    ELSE IF feed = "steady" THEN SteadyHistory(symbol, start, holidays, order)
    ELSE History(symbol, start, holidays, order)

\* a query string that is no calendar date ("invalid", "2023-13-01")
NotADate == 0

\* start and end are calendar dates and the end is not before the start
ValidWindow(start, end) == start # NotADate /\ end # NotADate /\ start <= end

\* Quote(symbol).history(start, end, "1D"): the rows of the window up to its
\* end; no rows when the window is no window
QuoteWindow(symbol, start, end, holidays, order, feed) ==
    IF ValidWindow(start, end)
    THEN SelectSeq(QuoteHistory(symbol, start, holidays, order, feed),
                   LAMBDA r : r.time <= end)
    ELSE <<>>

Times(rows) == {rows[i].time : i \in 1..Len(rows)}

\* ------------------------------------------------ calculate_beta helpers
\* the closes of a frame by time: time -> the closes of its rows, in row order
RECURSIVE ClosesByTime(_)
ClosesByTime(rows) ==
    IF rows = <<>> THEN <<>>
    ELSE LET r == rows[Len(rows)]
             m == ClosesByTime(SubSeq(rows, 1, Len(rows) - 1))
         IN  IF r.time \in DOMAIN m
             THEN [m EXCEPT ![r.time] = Append(@, r.close)]
             ELSE m @@ (r.time :> <<r.close>>)

RECURSIVE JoinRows(_, _)
JoinRows(stock, closes) ==
    IF stock = <<>> THEN <<>>
    ELSE LET r == Head(stock)
             rest == JoinRows(Tail(stock), closes)
         IN  IF r.time \in DOMAIN closes
             THEN [j \in 1..Len(closes[r.time]) |->
                     [time |-> r.time, stock_close |-> r.close,
                      market_close |-> closes[r.time][j]]] \o rest
             ELSE rest

\* stock[["time","close"]].merge(market[["time","close"]], on="time", how="inner"):
\* one row per pair of a stock row and a market row of the same time, in
\* the order of the stock rows
InnerMerge(stock, market) == JoinRows(stock, ClosesByTime(market))

RECURSIVE MergeByTime(_, _)
MergeByTime(a, b) ==
    IF a = <<>> THEN b
    ELSE IF b = <<>> THEN a
    ELSE IF Head(b).time < Head(a).time
         THEN <<Head(b)>> \o MergeByTime(a, Tail(b))
         ELSE <<Head(a)>> \o MergeByTime(Tail(a), b)

\* .sort_values("time"): ascending by time, rows of equal time in their
\* previous order
RECURSIVE SortValues(_)
SortValues(rows) ==
    IF Len(rows) <= 1 THEN rows
    ELSE LET h == Len(rows) \div 2
         IN  MergeByTime(SortValues(SubSeq(rows, 1, h)),
                         SortValues(SubSeq(rows, h + 1, Len(rows))))

NaN == [nan |-> TRUE, num |-> 0, den |-> 1]

\* pct_change of two columns: row i holds close[i] / close[i-1] - 1, the
\* first row holds NaN
PctChange(aligned) ==
    [i \in 1..Len(aligned) |->
        [time |-> aligned[i].time,
         stock_ret |-> IF i = 1 THEN NaN
                       ELSE [nan |-> FALSE,
                             num |-> aligned[i].stock_close - aligned[i-1].stock_close,
                             den |-> aligned[i-1].stock_close],
         market_ret |-> IF i = 1 THEN NaN
                        ELSE [nan |-> FALSE,
                              num |-> aligned[i].market_close - aligned[i-1].market_close,
                              den |-> aligned[i-1].market_close]]]

\* .dropna(subset=["stock_ret", "market_ret"])
DropNa(rows) ==
    SelectSeq(rows, LAMBDA r : ~r.stock_ret.nan /\ ~r.market_ret.nan)

AlignStockDatesOnly(stock_data, market_data) ==
    SortValues(InnerMerge(stock_data, stock_data))

AlignInProviderOrder(stock_data, market_data) ==
    InnerMerge(stock_data, market_data)

\* lines 104-115: the rows of the common trading dates, by date
Align(stock_data, market_data) ==
    SortValues(InnerMerge(stock_data, market_data))

\* line 118
TooFewAligned(aligned) == Len(aligned) < MinAlignedRows

TooFewReturnsOffByOne(returns) == Len(returns) <= MinReturnRows

\* line 131
TooFewReturns(returns) == Len(returns) < MinReturnRows

\* ------------------------------------------- calculate_beta statistics
\* a float result: a number held to three decimals (1.25 is 1250), or nan
Real(v) == [nan |-> FALSE, v |-> v]
NotANumber == [nan |-> TRUE, v |-> 0]

\* a return as a float, in 1/1000
Fixed(ret) == (ret.num * 1000) \div ret.den

\* returns["stock_ret"].values, returns["market_ret"].values
StockReturns(rets) == [i \in 1..Len(rets) |-> Fixed(rets[i].stock_ret)]
MarketReturns(rets) == [i \in 1..Len(rets) |-> Fixed(rets[i].market_ret)]

RECURSIVE SumSeq(_)
SumSeq(x) == IF x = <<>> THEN 0 ELSE x[Len(x)] + SumSeq(SubSeq(x, 1, Len(x) - 1))

\* np.cov(x, y)[0, 1] times n * (n - 1): n * sum(x * y) - sum(x) * sum(y)
Comoment(x, y) ==
    Len(x) * SumSeq([i \in 1..Len(x) |-> x[i] * y[i]]) - SumSeq(x) * SumSeq(y)

\* float division: 0 / 0 is nan
Quotient(a, b) == IF b = 0 THEN NotANumber ELSE Real((a * 1000) \div b)

RECURSIVE SqrtBetween(_, _, _)
SqrtBetween(n, lo, hi) ==
    IF hi - lo <= 1 THEN lo
    ELSE LET mid == (lo + hi) \div 2
         IN  IF mid * mid <= n THEN SqrtBetween(n, mid, hi)
             ELSE SqrtBetween(n, lo, mid)

\* the square root of n, rounded down, for 0 <= n < 2^30
Sqrt(n) == SqrtBetween(n, 0, 32768)

BetaOfStockVariance(stock_returns, market_returns) ==
    Quotient(Comoment(stock_returns, market_returns),
             Comoment(stock_returns, stock_returns))

\* lines 138-139: cov_matrix[0, 1] / cov_matrix[1, 1]
Beta(stock_returns, market_returns) ==
    Quotient(Comoment(stock_returns, market_returns),
             Comoment(market_returns, market_returns))

\* line 142: np.corrcoef(...)[0, 1], the covariance over the product of the
\* standard deviations
Correlation(stock_returns, market_returns) ==
    LET c == Comoment(stock_returns, market_returns)
        vs == Comoment(stock_returns, stock_returns)
        vm == Comoment(market_returns, market_returns)
        root == Sqrt(((c * 1000) \div vs) * ((c * 1000) \div vm))
    IN  IF vs = 0 \/ vm = 0 THEN NotANumber
        ELSE Real(IF c < 0 THEN 0 - root ELSE root)

VolatilityOfSample(x) ==
    Real(Sqrt((Comoment(x, x) * 252) \div (Len(x) * (Len(x) - 1))))

\* lines 152-153: np.std(x) * np.sqrt(252), np.std being the square root of
\* the mean squared deviation from the mean
Volatility(x) == Real(Sqrt(Comoment(x, x) * 252) \div Len(x))

\* np.polyfit scales the columns of [x, 1] by their norms; a column of
\* zeros is divided by 0 and the least-squares solver is handed nan
PolyfitDividesByZero(market_returns) ==
    \A i \in 1..Len(market_returns) : market_returns[i] = 0

\* lines 145-149: the least-squares line of the stock returns on the market
\* returns has slope cov / var, so that n * ss_res is n * ss_tot less
\* slope * n * cov (all of n * ss_tot when the market returns do not vary);
\* r_squared is 1 - ss_res / ss_tot, and 0 when ss_tot is 0
RSquared(stock_returns, market_returns) ==
    LET c == Comoment(stock_returns, market_returns)
        ss_tot == Comoment(stock_returns, stock_returns)
        vm == Comoment(market_returns, market_returns)
        slope == (c * 1000) \div vm
        ss_res == ss_tot - ((slope * c) \div 1000)
    IN  IF ss_tot = 0 THEN Real(0)
        ELSE IF PolyfitDividesByZero(market_returns) THEN NotANumber
        ELSE IF vm = 0 THEN Real(0)
        ELSE Real(1000 - ((ss_res * 1000) \div ss_tot))

\* ------------------------------------------------------ financial feeds
\* a cell of a feed row: a number, NaN, a non-numeric text, or no such column
Num(n) == [k |-> "num", v |-> n]
NaNCell == [k |-> "nan", v |-> 0]
TextCell == [k |-> "text", v |-> 0]
Absent == [k |-> "absent", v |-> 0]

PrimaryKey == "market_cap"
AlternateKey == "Market Capital (Bn. VND)"

PrimaryCells == {Absent, NaNCell, TextCell, Num(0), Num(4)}
AlternateCells == {Absent, Num(0), Num(3)}
ShortTermCells == {Absent, Num(-3), Num(1)}
LongTermCells == {NaNCell, Num(-3)}

\* finance.ratio(...): n rows, newest first; the cells of the first row are
\* the inputs, the older rows carry a market cap under the primary key
RatioFeed(n, primary, alternate) ==
    [i \in 1..n |->
        (PrimaryKey :> (IF i = 1 THEN primary ELSE Num(5)))
        @@ (AlternateKey :> (IF i = 1 THEN alternate ELSE Absent))
        @@ ("yearReport" :> Num(2024 - i))
        @@ ("year_report" :> Absent)]

\* finance.balance_sheet(...)
BalanceFeed(n, short, long) ==
    [i \in 1..n |->
        ("short_term_borrowings" :> short) @@ ("long_term_borrowings" :> long)]

\* _safe_get on a row (a pandas Series): the default when the row has no
\* such label or holds NaN there
SafeGet(row, key, default) ==
    IF row[key].k = "absent" THEN default
    ELSE IF row[key].k = "nan" THEN default
    ELSE row[key]

\* _safe_get_float: the default also when float(value) raises
SafeGetFloat(row, key, default) ==
    LET value == SafeGet(row, key, Num(default))
    IN  IF value.k = "nan" THEN default
        ELSE IF value.k = "text" THEN default
        ELSE value.v

MarketCapPrimaryOnly(latest_ratio) == SafeGetFloat(latest_ratio, PrimaryKey, 0)

\* lines 242-245
MarketCap(latest_ratio) ==
    LET market_cap == SafeGetFloat(latest_ratio, PrimaryKey, 0)
    IN  IF market_cap = 0 THEN SafeGetFloat(latest_ratio, AlternateKey, 0)
        ELSE market_cap

TotalDebtShortTermOnly(latest_balance) ==
    SafeGetFloat(latest_balance, "short_term_borrowings", 0)

\* lines 251-253
TotalDebt(latest_balance) ==
    SafeGetFloat(latest_balance, "short_term_borrowings", 0)
    + SafeGetFloat(latest_balance, "long_term_borrowings", 0)

Frac(n, d) == [num |-> n, den |-> d]

DebtWeightOverEquity(market_cap, total_debt) == Frac(total_debt, market_cap)

\* line 262
EquityWeight(market_cap, total_debt) == Frac(market_cap, market_cap + total_debt)

\* line 263
DebtWeight(market_cap, total_debt) == Frac(total_debt, market_cap + total_debt)

\* an override of a request: None, or a rate in 1/1000
OverrideRates == {None, Some(0), Some(40)}

\* the overrides of a request: risk_free_rate, market_risk_premium,
\* credit_spread.  Every parameter takes every kind of override, and every
\* two parameters take every pair of kinds
OverrideKind(o) == IF o = None THEN 0 ELSE IF o[1] = 0 THEN 1 ELSE 2

OverrideCombos ==
    {o \in OverrideRates \X OverrideRates \X OverrideRates :
        (OverrideKind(o[1]) + OverrideKind(o[2]) + OverrideKind(o[3])) % 3 = 0}

\* `override or default`: None and 0.0 are falsy
OrDefault(override, default) ==
    IF override = None \/ override[1] = 0 THEN default ELSE override[1]

\* ------------------------------------------------------------ exceptions
\* an exception is its cause chain, outermost first; ticker is the ticker
\* its message names, "" when it names none
Raise(type, msg, ticker) == <<[type |-> type, msg |-> msg, ticker |-> ticker]>>

Reraise(e, msg, ticker) == e

\* raise Exception(f"{msg} for {ticker}") from e
Wrap(e, msg, ticker) ==
    <<[type |-> "Exception", msg |-> msg, ticker |-> ticker]>> \o e

\* the exception at the root of a cause chain
RootCause(e) == e[Len(e)]

\* what a failing provider call raises
ProviderErrors ==
    {Raise("ConnectionError", "provider call failed", ""),
     Raise("ValueError", "provider call failed", "")}

Orders == {"asc", "desc"}

\* the orders in which a provider may send the rows of a history
AnyOrder == Orders \cup {"shuffled"}

\* except ValueError -> 400, except Exception -> 500
StatusOf(e) == IF e[1].type = "ValueError" THEN 400 ELSE 500

VARIABLES
    pc,            \* position of the request in the code
    stack,         \* return addresses of the calls in progress
    req,           \* the request: endpoint, ticker, window, overrides
    exc,           \* exception in flight, None when there is none
    stock_data,    \* calculate_beta: the stock history
    market_data,   \* calculate_beta: the benchmark history
    aligned,       \* calculate_beta: the joined rows
    returns,       \* calculate_beta: the return rows after dropna
    beta_ret,      \* value returned by the last calculate_beta call
    wacc,          \* calculate_wacc: its local variables
    wacc_ret,      \* value returned by calculate_wacc
    suite,         \* calculate_valuation_suite: its local variables
    suite_ret,     \* value returned by calculate_valuation_suite
    response,      \* the HTTP response, None until the handler answers
    assumptions,   \* the module-level market constants of service_valuation
    fetched,       \* the symbols whose history the request has asked of
                   \* the provider, one entry per call of Quote.history
    bench          \* get_industry_benchmark_ratios: its request, the state of
                   \* the provider it meets and its local variables

vars == <<pc, stack, req, exc, stock_data, market_data, aligned, returns,
          beta_ret, wacc, wacc_ret, suite, suite_ret, response, assumptions,
          fetched, bench>>

\* the variables of the valuation requests
valuation_vars ==
    <<pc, stack, req, exc, stock_data, market_data, aligned, returns, beta_ret,
      wacc, wacc_ret, suite, suite_ret, response, assumptions, fetched>>

beta_locals == <<stock_data, market_data, aligned, returns>>

NoRequest ==
    [endpoint |-> "none", ticker |-> "", start_date |-> 0, end_date |-> 0,
     risk_free_rate |-> None, market_risk_premium |-> None, credit_spread |-> None]

WaccIdle ==
    [rf |-> 0, mrp |-> 0, spread |-> 0, ratio_data |-> <<>>, balance_data |-> <<>>,
     market_cap |-> 0, total_debt |-> 0, total_value |-> 0,
     equity_weight |-> Frac(0, 1), debt_weight |-> Frac(0, 1)]

\* lines 23-26
MarketConstants ==
    [vietnam_corporate_tax_rate |-> VIETNAM_CORPORATE_TAX_RATE,
     vietnam_risk_free_rate |-> VIETNAM_RISK_FREE_RATE,
     vietnam_market_risk_premium |-> VIETNAM_MARKET_RISK_PREMIUM,
     default_credit_spread |-> DEFAULT_CREDIT_SPREAD]

\* no benchmark request is being served
BenchIdle ==
    [pc |-> "idle", listing |-> 0, down |-> {}, blank |-> {}, min_companies |-> 0,
     companies |-> <<>>, i |-> 0, ratio_data |-> <<>>, companies_analyzed |-> <<>>,
     ret |-> None, exc |-> None]

SuiteIdle == [beta_metrics |-> None, wacc_metrics |-> None, ratio_data |-> <<>>]

Init ==
    /\ pc = "idle"
    /\ stack = <<>>
    /\ req = NoRequest
    /\ exc = None
    /\ stock_data = <<>>
    /\ market_data = <<>>
    /\ aligned = <<>>
    /\ returns = <<>>
    /\ beta_ret = None
    /\ wacc = WaccIdle
    /\ wacc_ret = None
    /\ suite = SuiteIdle
    /\ suite_ret = None
    /\ response = None
    /\ assumptions = MarketConstants
    /\ fetched = <<>>
    /\ bench = BenchIdle

ClearBetaLocals ==
    /\ stock_data' = <<>>
    /\ market_data' = <<>>
    /\ aligned' = <<>>
    /\ returns' = <<>>

\* control goes back to the caller on top of the stack
ReturnToCaller ==
    /\ pc' = Head(stack)
    /\ stack' = Tail(stack)

\* ------------------------------------------------------- calculate_beta
BetaFailed == "Beta calculation failed"
InsufficientAligned == "Insufficient aligned data points"
InsufficientReturns == "Insufficient valid return observations"

\* lines 159-169
BetaMetrics(ticker, rets, start_date, end_date) ==
    [ticker |-> ticker,
     beta |-> Beta(StockReturns(rets), MarketReturns(rets)),
     correlation |-> Correlation(StockReturns(rets), MarketReturns(rets)),
     r_squared |-> RSquared(StockReturns(rets), MarketReturns(rets)),
     volatility_stock |-> Volatility(StockReturns(rets)),
     volatility_market |-> Volatility(MarketReturns(rets)),
     data_points_used |-> Len(rets),
     start_date |-> start_date, end_date |-> end_date]

SolverFailed == "SVD did not converge in Linear Least Squares"

StockHistoryFailureIgnored(feeds, orders) ==
    /\ pc = "beta_stock_history"
    /\ UNCHANGED <<assumptions, bench>>
    /\ fetched' = Append(fetched, req.ticker)
    /\ \/ \E e \in ProviderErrors :
            /\ exc' = Wrap(e, BetaFailed, req.ticker)
            /\ stock_data' = <<>>
       \/ \E h \in SUBSET HolidayDates, o \in orders, f \in feeds :
            /\ stock_data' = QuoteWindow(req.ticker, req.start_date,
                                          req.end_date, h, o, f)
            /\ UNCHANGED exc
    /\ pc' = "beta_market_history"
    /\ UNCHANGED <<stack, beta_ret, req, market_data, aligned, returns, wacc,
                   wacc_ret, suite, suite_ret, response>>

\* lines 91-94: the stock history is fetched from a feed in one of the
\* given conditions; a failure is wrapped (171-173)
StockHistoryFrom(feeds, orders) ==
    /\ pc = "beta_stock_history"
    /\ UNCHANGED <<assumptions, bench>>
    /\ fetched' = Append(fetched, req.ticker)
    /\ \/ \E e \in ProviderErrors :
            /\ exc' = Wrap(e, BetaFailed, req.ticker)
            /\ beta_ret' = None
            /\ ReturnToCaller
            /\ UNCHANGED stock_data
       \/ \E h \in SUBSET HolidayDates, o \in orders, f \in feeds :
            /\ stock_data' = QuoteWindow(req.ticker, req.start_date,
                                          req.end_date, h, o, f)
            /\ pc' = "beta_market_history"
            /\ UNCHANGED <<stack, exc, beta_ret>>
    /\ UNCHANGED <<req, market_data, aligned, returns, wacc, wacc_ret, suite,
                   suite_ret, response>>

\* lines 95-173: the benchmark history is fetched, the two are aligned, the
\* row counts are validated and the metrics are returned.  When the
\* least-squares solver of np.polyfit is handed nan it raises LinAlgError
\* or returns nan, depending on the LAPACK build
MarketHistoryFrom(feeds, orders) ==
    /\ pc = "beta_market_history"
    /\ UNCHANGED <<assumptions, bench>>
    /\ fetched' = Append(fetched, MarketSymbol)
    /\ \/ \E e \in ProviderErrors :
            /\ exc' = Wrap(e, BetaFailed, req.ticker)
            /\ beta_ret' = None
            /\ UNCHANGED <<market_data, aligned, returns>>
       \/ \E h \in SUBSET HolidayDates, o \in orders, f \in feeds :
            LET md == QuoteWindow(MarketSymbol, req.start_date, req.end_date,
                                  h, o, f)
                al == Align(stock_data, md)
                rs == DropNa(PctChange(al))
            IN  /\ market_data' = md
                /\ aligned' = al
                /\ IF TooFewAligned(al)
                   THEN /\ exc' = Wrap(Raise("ValueError", InsufficientAligned, ""),
                                       BetaFailed, req.ticker)
                        /\ returns' = <<>>
                        /\ beta_ret' = None
                   ELSE IF TooFewReturns(rs)
                   THEN /\ exc' = Wrap(Raise("ValueError", InsufficientReturns, ""),
                                       BetaFailed, req.ticker)
                        /\ returns' = rs
                        /\ beta_ret' = None
                   ELSE /\ returns' = rs
                        /\ \/ /\ exc' = None
                              /\ beta_ret' = Some(BetaMetrics(req.ticker, rs,
                                                req.start_date, req.end_date))
                           \/ /\ PolyfitDividesByZero(MarketReturns(rs))
                              /\ exc' = Wrap(Raise("LinAlgError", SolverFailed, ""),
                                             BetaFailed, req.ticker)
                              /\ beta_ret' = None
    /\ ReturnToCaller
    /\ UNCHANGED <<req, stock_data, wacc, wacc_ret, suite, suite_ret, response>>

\* the quotes of a feed that is traded every day
BetaStockHistory == StockHistoryFrom({"traded"}, Orders)

BetaMarketHistory == MarketHistoryFrom({"traded"}, Orders)

\* ------------------------------------------------------------ GET /beta
BetaRequestFor(tickers, starts, ends) ==
    /\ pc = "idle"
    /\ UNCHANGED <<fetched, bench>>
    /\ UNCHANGED assumptions
    /\ \E t \in tickers, s \in starts, e \in ends :
         req' = [NoRequest EXCEPT !.endpoint = "beta", !.ticker = t,
                                  !.start_date = s, !.end_date = e]
    /\ stack' = <<"route_beta">>
    /\ pc' = "beta_stock_history"
    /\ UNCHANGED <<exc, beta_locals, beta_ret, wacc, wacc_ret, suite, suite_ret,
                   response>>

BetaRequest == BetaRequestFor(Tickers, 1..MaxStart, {MaxDate})

Respond(status) == response' = Some([status |-> status])

DivisionByZero == "float division by zero"

\* get_beta_analysis, lines 64-102.  volatility_stock / volatility_market
\* (lines 79-80) divides by 0.0 when the market returns do not vary: the
\* division raises ZeroDivisionError on Python floats and yields inf or nan
\* on numpy floats, whichever the BetaMetrics model holds
RouteBetaResponse ==
    /\ pc = "route_beta"
    /\ UNCHANGED <<fetched, bench>>
    /\ UNCHANGED assumptions
    /\ IF exc # None THEN Respond(StatusOf(exc))
       ELSE \/ Respond(200)
            \/ /\ beta_ret[1].volatility_market.v = 0
               /\ Respond(StatusOf(Raise("ZeroDivisionError", DivisionByZero, "")))
    /\ pc' = "done"
    /\ ClearBetaLocals
    /\ UNCHANGED <<stack, req, exc, beta_ret, wacc, wacc_ret, suite, suite_ret>>

\* ------------------------------------------------------- calculate_wacc
WaccFailed == "WACC calculation failed"
NoFinancialData == "No financial data available"
NoMarketCap == "Market capitalization not available"
NoFirmValue == "Cannot determine firm value"

\* lines 217-219: the frame of a call with the given overrides
EnterWacc(risk_free_rate, market_risk_premium, credit_spread) ==
    [WaccIdle EXCEPT
        !.rf = OrDefault(risk_free_rate, assumptions.vietnam_risk_free_rate),
        !.mrp = OrDefault(market_risk_premium,
                          assumptions.vietnam_market_risk_premium),
        !.spread = OrDefault(credit_spread, assumptions.default_credit_spread)]

ConstantsReboundByWacc(constants, risk_free_rate, market_risk_premium, credit_spread) ==
    [constants EXCEPT
        !.vietnam_risk_free_rate = OrDefault(risk_free_rate, @),
        !.vietnam_market_risk_premium = OrDefault(market_risk_premium, @),
        !.default_credit_spread = OrDefault(credit_spread, @)]

\* lines 217-219 bind the local names rf, mrp and spread; the module
\* constants are read and not assigned
ConstantsAfterWacc(constants, risk_free_rate, market_risk_premium, credit_spread) ==
    constants

\* lines 399-416
GetMarketAssumptions ==
    [vietnam_corporate_tax_rate |-> assumptions.vietnam_corporate_tax_rate,
     vietnam_risk_free_rate |-> assumptions.vietnam_risk_free_rate,
     vietnam_market_risk_premium |-> assumptions.vietnam_market_risk_premium,
     default_credit_spread |-> assumptions.default_credit_spread,
     market_benchmark |-> "VNINDEX",
     trading_days_per_year |-> 252]

TotalValueNeverInvalid(total_value) == FALSE

\* line 258
TotalValueInvalid(total_value) == total_value = 0

\* line 273-274, in 1/1000000: (rf + spread) * (1 - tax rate)
AfterTaxCostOfDebt(rf, spread) ==
    (rf + spread) * (1000 - assumptions.vietnam_corporate_tax_rate)

CostOfEquityWithoutRiskFree(rf, beta, mrp) ==
    IF beta.nan THEN NotANumber ELSE Real(beta.v * mrp)

\* line 270, in 1/1000000: rf + beta * mrp; nan when beta is
CostOfEquity(rf, beta, mrp) ==
    IF beta.nan THEN NotANumber ELSE Real(rf * 1000 + beta.v * mrp)

WaccWithUnweightedDebt(equity_weight, debt_weight, cost_of_equity, cost_of_debt) ==
    IF cost_of_equity.nan THEN NaN
    ELSE [nan |-> FALSE,
          num |-> equity_weight.num * cost_of_equity.v
                  + cost_of_debt * equity_weight.den,
          den |-> equity_weight.den]

\* line 277, in 1/1000000, as a ratio of two integers:
\* equity_weight * cost_of_equity + debt_weight * after_tax_cost_of_debt
Wacc(equity_weight, debt_weight, cost_of_equity, cost_of_debt) ==
    IF cost_of_equity.nan THEN NaN
    ELSE [nan |-> FALSE,
          num |-> equity_weight.num * cost_of_equity.v * debt_weight.den
                  + debt_weight.num * cost_of_debt * equity_weight.den,
          den |-> equity_weight.den * debt_weight.den]

\* lines 267-295
WACCMetrics(ticker, w, beta_metrics) ==
    [ticker |-> ticker,
     beta |-> beta_metrics.beta,
     cost_of_equity |-> CostOfEquity(w.rf, beta_metrics.beta, w.mrp),
     wacc |-> Wacc(w.equity_weight, w.debt_weight,
                   CostOfEquity(w.rf, beta_metrics.beta, w.mrp),
                   AfterTaxCostOfDebt(w.rf, w.spread)),
     cost_of_debt |-> AfterTaxCostOfDebt(w.rf, w.spread),
     market_value_equity |-> w.market_cap,
     market_value_debt |-> w.total_debt,
     total_value |-> w.total_value,
     equity_weight |-> w.equity_weight,
     debt_weight |-> w.debt_weight,
     tax_rate |-> assumptions.vietnam_corporate_tax_rate,
     risk_free_rate |-> w.rf,
     market_risk_premium |-> w.mrp]

\* line 225: the ratio feed is fetched
WaccRatio ==
    /\ pc = "wacc_ratio"
    /\ UNCHANGED <<fetched, bench>>
    /\ UNCHANGED assumptions
    /\ \/ \E e \in ProviderErrors :
            /\ exc' = Wrap(e, WaccFailed, req.ticker)
            /\ wacc_ret' = None
            /\ ReturnToCaller
            /\ UNCHANGED wacc
       \/ \E n \in 0..MaxPeriods, p \in PrimaryCells, a \in AlternateCells :
            /\ wacc' = [wacc EXCEPT !.ratio_data = RatioFeed(n, p, a)]
            /\ pc' = "wacc_balance_sheet"
            /\ UNCHANGED <<stack, exc, wacc_ret>>
    /\ UNCHANGED <<req, beta_locals, beta_ret, suite, suite_ret, response>>

\* lines 226-263: the balance sheet is fetched, the feeds are validated and
\* the capital structure is computed
WaccBalanceSheet ==
    /\ pc = "wacc_balance_sheet"
    /\ UNCHANGED <<fetched, bench>>
    /\ UNCHANGED assumptions
    /\ \/ \E e \in ProviderErrors :
            /\ exc' = Wrap(e, WaccFailed, req.ticker)
            /\ wacc_ret' = None
            /\ ReturnToCaller
            /\ UNCHANGED wacc
       \/ \E n \in 0..1, s \in ShortTermCells, l \in LongTermCells :
            LET balance_data == BalanceFeed(n, s, l)
                w0 == [wacc EXCEPT !.balance_data = balance_data]
                market_cap == MarketCap(wacc.ratio_data[1])
                total_debt == TotalDebt(balance_data[1])
                total_value == market_cap + total_debt
                w1 == [w0 EXCEPT !.market_cap = market_cap]
                w2 == [w1 EXCEPT !.total_debt = total_debt,
                                 !.total_value = total_value]
                Fail(msg, w) ==
                    /\ exc' = Wrap(Raise("ValueError", msg, req.ticker),
                                   WaccFailed, req.ticker)
                    /\ wacc' = w
                    /\ wacc_ret' = None
                    /\ ReturnToCaller
            IN  IF wacc.ratio_data = <<>> \/ balance_data = <<>>
                THEN Fail(NoFinancialData, w0)
                ELSE IF market_cap = 0
                THEN Fail(NoMarketCap, w1)
                ELSE IF TotalValueInvalid(total_value)
                THEN Fail(NoFirmValue, w2)
                ELSE /\ wacc' = [w2 EXCEPT
                            !.equity_weight = EquityWeight(market_cap, total_debt),
                            !.debt_weight = DebtWeight(market_cap, total_debt)]
                     /\ pc' = "wacc_call_beta"
                     /\ UNCHANGED <<stack, exc, wacc_ret>>
    /\ UNCHANGED <<req, beta_locals, beta_ret, suite, suite_ret, response>>

\* line 266: calculate_beta(ticker, start_date, end_date); the feeds are not
\* read again
WaccCallBeta ==
    /\ pc = "wacc_call_beta"
    /\ UNCHANGED <<fetched, bench>>
    /\ UNCHANGED assumptions
    /\ stack' = <<"wacc_after_beta">> \o stack
    /\ pc' = "beta_stock_history"
    /\ wacc' = [wacc EXCEPT !.ratio_data = <<>>, !.balance_data = <<>>]
    /\ UNCHANGED <<req, exc, beta_locals, beta_ret, wacc_ret, suite, suite_ret,
                   response>>

\* lines 267-299
WaccAfterBeta ==
    /\ pc = "wacc_after_beta"
    /\ UNCHANGED <<fetched, bench>>
    /\ UNCHANGED assumptions
    /\ IF exc # None
       THEN /\ exc' = Wrap(exc, WaccFailed, req.ticker)
            /\ wacc_ret' = None
       ELSE /\ wacc_ret' = Some(WACCMetrics(req.ticker, wacc, beta_ret[1]))
            /\ UNCHANGED exc
    /\ ReturnToCaller
    /\ ClearBetaLocals
    /\ UNCHANGED <<req, beta_ret, wacc, suite, suite_ret, response>>

\* ------------------------------------------------------------ GET /wacc
WaccRequest ==
    /\ pc = "idle"
    /\ UNCHANGED <<fetched, bench>>
    /\ \E t \in Tickers, s \in 1..MaxStart, o \in OverrideCombos :
         /\ req' = [NoRequest EXCEPT !.endpoint = "wacc", !.ticker = t,
                                     !.start_date = s, !.end_date = MaxDate,
                                     !.risk_free_rate = o[1],
                                     !.market_risk_premium = o[2],
                                     !.credit_spread = o[3]]
         /\ wacc' = EnterWacc(o[1], o[2], o[3])
         /\ assumptions' = ConstantsAfterWacc(assumptions, o[1], o[2], o[3])
    /\ stack' = <<"route_wacc">>
    /\ pc' = "wacc_ratio"
    /\ UNCHANGED <<exc, beta_locals, beta_ret, wacc_ret, suite, suite_ret, response>>

\* get_wacc_analysis, lines 143-175
RouteWaccResponse ==
    /\ pc = "route_wacc"
    /\ UNCHANGED <<fetched, bench>>
    /\ UNCHANGED assumptions
    /\ IF exc = None THEN Respond(200) ELSE Respond(StatusOf(exc))
    /\ pc' = "done"
    /\ UNCHANGED <<stack, req, exc, beta_locals, beta_ret, wacc, wacc_ret, suite,
                   suite_ret>>

\* -------------------------------------------- calculate_valuation_suite
SuiteFailed == "Valuation suite calculation failed"

\* `if not year_report`, `if year_report`: None and 0 are falsy
Truthy(cell) == cell.k = "text" \/ (cell.k = "num" /\ cell.v # 0)

\* lines 341-343 and 356: yearReport, else year_report, as an int or None
\* (the feed holds a number or nothing under either label)
YearReport(row) ==
    LET first == SafeGet(row, "yearReport", Absent)
        year_report == IF Truthy(first) THEN first
                       ELSE SafeGet(row, "year_report", Absent)
    IN  IF Truthy(year_report) THEN Some(year_report.v) ELSE None

\* lines 350-385
ValuationMetrics(ticker, row, beta_metrics, wacc_metrics) ==
    [ticker |-> ticker,
     year_report |-> YearReport(row),
     beta |-> beta_metrics.beta,
     correlation |-> beta_metrics.correlation,
     r_squared |-> beta_metrics.r_squared,
     wacc |-> wacc_metrics.wacc,
     cost_of_equity |-> wacc_metrics.cost_of_equity,
     cost_of_debt |-> wacc_metrics.cost_of_debt,
     market_cap |-> wacc_metrics.market_value_equity,
     total_debt |-> wacc_metrics.market_value_debt,
     enterprise_value |-> wacc_metrics.market_value_equity
                          + wacc_metrics.market_value_debt,
     equity_weight |-> wacc_metrics.equity_weight,
     debt_weight |-> wacc_metrics.debt_weight,
     risk_free_rate |-> wacc_metrics.risk_free_rate,
     market_risk_premium |-> wacc_metrics.market_risk_premium,
     tax_rate |-> wacc_metrics.tax_rate,
     data_points_used |-> beta_metrics.data_points_used,
     start_date |-> beta_metrics.start_date,
     end_date |-> beta_metrics.end_date]

SuiteRecordsLatestOnly(ticker, ratio_data, beta_metrics, wacc_metrics) ==
    [i \in 1..(IF ratio_data = <<>> THEN 0 ELSE 1) |->
        ValuationMetrics(ticker, ratio_data[i], beta_metrics, wacc_metrics)]

\* lines 338-392: the loop over the rows of the ratio feed
SuiteRecords(ticker, ratio_data, beta_metrics, wacc_metrics) ==
    [i \in 1..Len(ratio_data) |->
        ValuationMetrics(ticker, ratio_data[i], beta_metrics, wacc_metrics)]

\* line 330 returned; line 331 calls calculate_wacc without overrides
SuiteAfterBeta ==
    /\ pc = "suite_after_beta"
    /\ UNCHANGED <<fetched, bench>>
    /\ IF exc # None
       THEN /\ exc' = Wrap(exc, SuiteFailed, req.ticker)
            /\ suite_ret' = None
            /\ ReturnToCaller
            /\ UNCHANGED <<suite, wacc, assumptions>>
       ELSE /\ suite' = [suite EXCEPT !.beta_metrics = beta_ret]
            /\ wacc' = EnterWacc(None, None, None)
            /\ assumptions' = ConstantsAfterWacc(assumptions, None, None, None)
            /\ stack' = <<"suite_after_wacc">> \o stack
            /\ pc' = "wacc_ratio"
            /\ UNCHANGED <<exc, suite_ret>>
    /\ ClearBetaLocals
    /\ UNCHANGED <<req, beta_ret, wacc_ret, response>>

\* line 331 returned
SuiteAfterWacc ==
    /\ pc = "suite_after_wacc"
    /\ UNCHANGED <<fetched, bench>>
    /\ UNCHANGED assumptions
    /\ IF exc # None
       THEN /\ exc' = Wrap(exc, SuiteFailed, req.ticker)
            /\ suite_ret' = None
            /\ ReturnToCaller
            /\ UNCHANGED suite
       ELSE /\ suite' = [suite EXCEPT !.wacc_metrics = wacc_ret]
            /\ pc' = "suite_ratio"
            /\ UNCHANGED <<stack, exc, suite_ret>>
    /\ wacc' = WaccIdle
    /\ UNCHANGED <<req, beta_locals, beta_ret, wacc_ret, response>>

\* lines 334-396: the ratio feed is fetched again, one record per row
SuiteRatio ==
    /\ pc = "suite_ratio"
    /\ UNCHANGED <<fetched, bench>>
    /\ UNCHANGED assumptions
    /\ \/ \E e \in ProviderErrors :
            /\ exc' = Wrap(e, SuiteFailed, req.ticker)
            /\ suite_ret' = None
            /\ UNCHANGED suite
       \/ \E n \in 0..MaxPeriods :
            LET ratio_data == RatioFeed(n, Num(4), Absent)
            IN  /\ suite' = [suite EXCEPT !.ratio_data = ratio_data]
                /\ suite_ret' = Some(SuiteRecords(req.ticker, ratio_data,
                                                  suite.beta_metrics[1],
                                                  suite.wacc_metrics[1]))
                /\ UNCHANGED exc
    /\ ReturnToCaller
    /\ UNCHANGED <<req, beta_locals, beta_ret, wacc, wacc_ret, response>>

\* ------------------------------------------------------- GET /valuation
ValuationRequest ==
    /\ pc = "idle"
    /\ UNCHANGED <<fetched, bench>>
    /\ UNCHANGED assumptions
    /\ \E t \in Tickers, s \in 1..MaxStart :
         req' = [NoRequest EXCEPT !.endpoint = "valuation", !.ticker = t,
                                  !.start_date = s, !.end_date = MaxDate]
    /\ stack' = <<"suite_after_beta", "route_valuation">>
    /\ pc' = "beta_stock_history"
    /\ UNCHANGED <<exc, beta_locals, beta_ret, wacc, wacc_ret, suite, suite_ret,
                   response>>

NoValuationData == "No valuation data available"

\* get_complete_valuation, lines 212-311: the HTTPException(404) of line 217
\* is raised inside the try block
RouteValuationResponse ==
    /\ pc = "route_valuation"
    /\ UNCHANGED <<fetched, bench>>
    /\ UNCHANGED assumptions
    /\ IF exc # None THEN Respond(StatusOf(exc))
       ELSE IF suite_ret[1] = <<>>
       THEN Respond(StatusOf(Raise("HTTPException", NoValuationData, req.ticker)))
       ELSE Respond(200)
    /\ pc' = "done"
    /\ UNCHANGED <<stack, req, exc, beta_locals, beta_ret, wacc, wacc_ret, suite,
                   suite_ret>>

\* the request is over; the next one starts from scratch
Finish ==
    /\ pc = "done"
    /\ UNCHANGED <<assumptions, bench>>
    /\ fetched' = <<>>
    /\ pc' = "idle"
    /\ stack' = <<>>
    /\ req' = NoRequest
    /\ exc' = None
    /\ ClearBetaLocals
    /\ beta_ret' = None
    /\ wacc' = WaccIdle
    /\ wacc_ret' = None
    /\ suite' = SuiteIdle
    /\ suite_ret' = None
    /\ response' = None

Next ==
    \/ BetaRequest
    \/ BetaStockHistory
    \/ BetaMarketHistory
    \/ RouteBetaResponse
    \/ WaccRequest
    \/ WaccRatio
    \/ WaccBalanceSheet
    \/ WaccCallBeta
    \/ WaccAfterBeta
    \/ RouteWaccResponse
    \/ ValuationRequest
    \/ SuiteAfterBeta
    \/ SuiteAfterWacc
    \/ SuiteRatio
    \/ RouteValuationResponse
    \/ Finish

Spec == Init /\ [][Next]_vars

\* ------------------------------------------- beta requests on any feed
\* GET /beta for a stock or for the benchmark itself, with any two strings
\* for start_date and end_date, the provider's quote feed being traded,
\* stale or steadily rising and sending its rows in any order
AnyBetaRequest ==
    BetaRequestFor(Tickers \cup {MarketSymbol}, {NotADate} \cup 1..MaxStart,
                   {NotADate, 1, MaxDate})

AnyStockHistory == StockHistoryFrom(Feeds, AnyOrder)

AnyMarketHistory == MarketHistoryFrom(Feeds, AnyOrder)

NextBeta ==
    \/ AnyBetaRequest
    \/ AnyStockHistory
    \/ AnyMarketHistory
    \/ RouteBetaResponse
    \/ Finish

BetaSpec == Init /\ [][NextBeta]_vars

\* ---------------------------------------------------- concurrent requests
\* The variables above but assumptions are the local variables of the
\* functions serving one request; another request that is served at the same
\* time has local variables of its own and can reach this request only
\* through the module-level names.  A step of another request that enters
\* calculate_wacc (lines 217-219), with any overrides:
ConcurrentWaccCall ==
    /\ \E o \in OverrideCombos :
         assumptions' = ConstantsAfterWacc(assumptions, o[1], o[2], o[3])
    /\ UNCHANGED <<pc, stack, req, exc, beta_locals, beta_ret, wacc, wacc_ret,
                   suite, suite_ret, response, fetched, bench>>

NextConcurrent == Next \/ ConcurrentWaccCall

\* requests served while other requests are in progress
Concurrent == Init /\ [][NextConcurrent]_vars

\* ------------------------------------------------- industry benchmarks
\* get_industry_benchmark_ratios, service_industry_benchmark.py.  Companies
\* are named by their position in the provider's listing of the industry.

\* two of the eighteen ratios of vietnamese_ratio_mapping
RatioFields == {"pe_ratio", "roe"}

\* the sizes of the listing the provider has for an industry
ListingSizes == {0, 3, DefaultMinCompanies, CompanyLimit + 1}

\* the companies whose ratio call may fail or come back empty
FragileCompanies == {1, 2, CompanyLimit}

\* the cell of the latest ratio row of company k: P/E is negative for
\* every fourth company; ROE is positive for the first three companies and
\* missing, nan, text or zero for the others
RatioCell(k, field) ==
    IF field = "pe_ratio"
    THEN IF k % 4 = 0 THEN Num(-1) ELSE Num(10 + k)
    ELSE IF k <= 3 THEN Num(4 + k)
    ELSE IF k % 4 = 0 THEN Absent
    ELSE IF k % 4 = 1 THEN NaNCell
    ELSE IF k % 4 = 2 THEN TextCell
    ELSE Num(0)

\* flattened_df.iloc[-1]
LatestRatio(k) == [f \in RatioFields |-> RatioCell(k, f)]

\* app.utils.transform.safe_get_float: None for a missing column, for nan
\* and when float(value) raises
SafeGetFloatOrNone(row, column_name) ==
    IF row[column_name].k = "num" THEN Some(row[column_name].v) ELSE None

\* line 151: companies_in_industry[:20]
FirstCompanies(listing) ==
    [k \in 1..(IF listing < CompanyLimit THEN listing ELSE CompanyLimit) |-> k]

CollectAnyNumber(values, value) ==
    IF value # None THEN Append(values, value[1]) ELSE values

\* lines 212-215: only positive values are collected
Collect(values, value) ==
    IF value # None /\ value[1] > 0 THEN Append(values, value[1]) ELSE values

\* lines 227-235, the count and the mean in whole units (median, p25, p75
\* and std are taken from the same values)
Statistics(values) == [count |-> Len(values), mean |-> SumSeq(values) \div Len(values)]

\* lines 223-235: an entry for every ratio with at least three values
Benchmarks(ratio_data) ==
    [f \in {g \in DOMAIN ratio_data : Len(ratio_data[g]) >= MinValues} |->
        Statistics(ratio_data[f])]

InsufficientCompanies == "Insufficient companies found for industry benchmark"

\* lines 43-52 and 148-152: the companies of the industry are listed, at
\* most 20 of them are kept, and fewer than min_companies is an error
BenchmarkRequest ==
    /\ bench.pc = "idle"
    /\ \E n \in ListingSizes, m \in {1, DefaultMinCompanies},
          d \in SUBSET FragileCompanies, b \in SUBSET FragileCompanies :
         LET companies == FirstCompanies(n)
             call == [BenchIdle EXCEPT !.listing = n, !.down = d, !.blank = b,
                                      !.min_companies = m,
                                      !.companies = companies]
         IN  IF companies = <<>> \/ Len(companies) < m
             THEN bench' = [call EXCEPT
                              !.pc = "done",
                              !.exc = Raise("ValueError", InsufficientCompanies, "")]
             ELSE bench' = [call EXCEPT
                              !.pc = "loop",
                              !.i = 1,
                              !.ratio_data = [f \in RatioFields |-> <<>>]]
    /\ UNCHANGED valuation_vars

\* lines 193-220, one turn of the loop: the ratios of the next company are
\* fetched; an exception and an empty frame skip the company, otherwise it
\* is counted and its positive values are collected
BenchmarkCompany ==
    /\ bench.pc = "loop"
    /\ LET ticker == bench.companies[bench.i]
           next == [bench EXCEPT
                      !.i = @ + 1,
                      !.pc = IF bench.i = Len(bench.companies)
                             THEN "statistics" ELSE "loop"]
       IN  IF ticker \in bench.down \/ ticker \in bench.blank
           THEN bench' = next
           ELSE bench' =
                  [next EXCEPT
                     !.companies_analyzed = Append(@, ticker),
                     !.ratio_data =
                        [f \in RatioFields |->
                            Collect(bench.ratio_data[f],
                                    SafeGetFloatOrNone(LatestRatio(ticker), f))]]
    /\ UNCHANGED valuation_vars

\* lines 223-237 and 57-66: the statistics and the returned dictionary
BenchmarkStatistics ==
    /\ bench.pc = "statistics"
    /\ bench' =
         [bench EXCEPT
            !.pc = "done",
            !.ret = Some([company_count |-> Len(bench.companies),
                          companies_analyzed |-> Len(bench.companies_analyzed),
                          benchmarks |-> Benchmarks(bench.ratio_data),
                          ratios_available |-> DOMAIN Benchmarks(bench.ratio_data)])]
    /\ UNCHANGED valuation_vars

BenchmarkFinish ==
    /\ bench.pc = "done"
    /\ bench' = BenchIdle
    /\ UNCHANGED valuation_vars

NextBenchmark ==
    \/ BenchmarkRequest
    \/ BenchmarkCompany
    \/ BenchmarkStatistics
    \/ BenchmarkFinish

\* requests for industry benchmarks
BenchmarkSpec == Init /\ [][NextBenchmark]_vars

\* =================================================================
\* Properties
\* =================================================================

\* calculate_beta has fetched both histories and has returned or raised;
\* its local variables are still in place
BetaHasRun == market_data # <<>>

\* the dates on which both instruments have a close
CommonDates == Times(stock_data) \cap Times(market_data)

\* the number of returns between consecutive common dates
Observations == IF CommonDates = {} THEN 0 ELSE Cardinality(CommonDates) - 1

\* the exception in flight goes back to one of the two row-count checks
InsufficientData ==
    /\ exc # None
    /\ RootCause(exc).type = "ValueError"
    /\ RootCause(exc).msg \in {InsufficientAligned, InsufficientReturns}

\* the exception in flight goes back to a failed provider call
FetchFailed == exc # None /\ <<RootCause(exc)>> \in ProviderErrors

\* C1: for two price series that share n >= 31 dates, the return rows number
\* n - 1, which is the reported data_points_used; every row holds a stock
\* return and a market return; the aligned dates are the common dates and
\* every date of a return row is one of them.
C1_AlignmentLength ==
    (BetaHasRun /\ Cardinality(CommonDates) >= 31) =>
        /\ Len(returns) = Cardinality(CommonDates) - 1
        /\ \A i \in 1..Len(returns) :
             ~returns[i].stock_ret.nan /\ ~returns[i].market_ret.nan
        /\ beta_ret # None
        /\ beta_ret[1].data_points_used = Cardinality(CommonDates) - 1
        /\ Times(aligned) = CommonDates
        /\ Times(returns) \subseteq CommonDates

C1_Witness ==
    /\ BetaHasRun
    /\ Cardinality(CommonDates) >= 31
    /\ Times(stock_data) # Times(market_data)
    /\ beta_ret # None
    /\ Len(returns) = Cardinality(CommonDates) - 1

\* C2: with 29 or fewer return observations calculate_beta raises, the root
\* cause being one of the insufficient-data errors; with exactly 30 it
\* returns a BetaMetrics (of 30 data points).
C2_InsufficientDataBoundary ==
    BetaHasRun =>
        /\ Observations <= 29 => (beta_ret = None /\ InsufficientData)
        /\ Observations = 30 =>
             (exc = None /\ beta_ret # None /\ beta_ret[1].data_points_used = 30)

C2_Witness ==
    /\ BetaHasRun
    /\ Observations = 30
    /\ beta_ret # None
    /\ Times(stock_data) # Times(market_data)

\* C3 (as claimed): series that pass the check on the aligned rows, that is
\* share at least the documented minimum of 30 trading days, are accepted.
C3_ThirtyTradingDaysSuffice ==
    (BetaHasRun /\ Cardinality(CommonDates) >= DocumentedMinTradingDays) =>
        (exc = None /\ beta_ret # None)

\* C4 (as claimed): the exception calculate_beta raises for insufficient
\* data is of another type than the one it raises for a failed fetch.
C4_DistinctErrorKinds ==
    (InsufficientData /\ exc[1].msg = BetaFailed) =>
        \A e \in ProviderErrors :
            exc[1].type # Wrap(e, BetaFailed, req.ticker)[1].type

\* C5 (as claimed): a request that fails for insufficient aligned data is
\* answered with status 400, and status 500 answers only failed fetches.
C5_InsufficientDataIs400 ==
    response # None =>
        /\ InsufficientData => response[1].status = 400
        /\ response[1].status = 500 => FetchFailed

\* C6 (as claimed): an empty list of periods from calculate_valuation_suite
\* is answered with status 404.
C6_EmptySuiteIs404 ==
    (response # None /\ req.endpoint = "valuation" /\ exc = None
        /\ suite_ret # None /\ suite_ret[1] = <<>>) =>
        response[1].status = 404

\* the rate a request asks for: its override when it gives one
Requested(override, default) == IF override = None THEN default ELSE override[1]

\* C7 (as claimed): the WACCMetrics of a /wacc request reports the override
\* of risk_free_rate and of market_risk_premium whenever one is given, 0
\* included, the default otherwise, and its cost of debt is computed from
\* the credit_spread resolved in the same way.
C7_OverridesUsed ==
    (req.endpoint = "wacc" /\ wacc_ret # None) =>
        LET rf == Requested(req.risk_free_rate, VIETNAM_RISK_FREE_RATE)
            mrp == Requested(req.market_risk_premium, VIETNAM_MARKET_RISK_PREMIUM)
            spread == Requested(req.credit_spread, DEFAULT_CREDIT_SPREAD)
        IN  /\ wacc_ret[1].risk_free_rate = rf
            /\ wacc_ret[1].market_risk_premium = mrp
            /\ wacc_ret[1].cost_of_debt
                 = (rf + spread) * (1000 - VIETNAM_CORPORATE_TAX_RATE)

\* a cell that yields a usable market capitalization
Usable(cell) == cell.k = "num" /\ cell.v # 0

\* calculate_wacc has read both feeds, neither empty, and has gone through
\* the market-cap step; the feeds are still in its frame
CapitalStructureRead == wacc.ratio_data # <<>> /\ wacc.balance_data # <<>>

MarketCapMissing ==
    /\ exc # None
    /\ RootCause(exc).type = "ValueError"
    /\ RootCause(exc).msg = NoMarketCap

\* C8: market_cap is the primary field of the latest ratio row when that is
\* present and non-zero, else the alternate field when that is present and
\* non-zero, else calculate_wacc raises the missing-market-cap error; a
\* returned WACCMetrics carries that market_cap, which is never 0.
C8_MarketCapFallback ==
    /\ CapitalStructureRead =>
         LET primary == wacc.ratio_data[1][PrimaryKey]
             alternate == wacc.ratio_data[1][AlternateKey]
         IN  /\ Usable(primary) =>
                  (wacc.market_cap = primary.v /\ ~MarketCapMissing)
             /\ (~Usable(primary) /\ Usable(alternate)) =>
                  (wacc.market_cap = alternate.v /\ ~MarketCapMissing)
             /\ (~Usable(primary) /\ ~Usable(alternate)) =>
                  (MarketCapMissing /\ wacc_ret = None /\ pc # "wacc_call_beta")
    /\ wacc_ret # None =>
         /\ wacc_ret[1].market_value_equity # 0
         /\ wacc # WaccIdle => wacc_ret[1].market_value_equity = wacc.market_cap

C8_Witness ==
    /\ CapitalStructureRead
    /\ pc = "wacc_call_beta"
    /\ ~Usable(wacc.ratio_data[1][PrimaryKey])
    /\ Usable(wacc.ratio_data[1][AlternateKey])
    /\ wacc.market_cap = wacc.ratio_data[1][AlternateKey].v

\* C9 (as claimed): no WACCMetrics is returned when total_value is zero or
\* negative.
C9_NoResultUnlessTotalPositive ==
    wacc_ret # None =>
        /\ wacc_ret[1].total_value
             = wacc_ret[1].market_value_equity + wacc_ret[1].market_value_debt
        /\ wacc_ret[1].total_value > 0

SumIsOne(a, b) == a.num * b.den + b.num * a.den = a.den * b.den

InUnitInterval(q) ==
    IF q.den > 0 THEN 0 <= q.num /\ q.num <= q.den
    ELSE q.den < 0 /\ q.den <= q.num /\ q.num <= 0

SpreadUsed == IF wacc # WaccIdle THEN wacc.spread ELSE DEFAULT_CREDIT_SPREAD

\* a / b = c / d
SameRatio(a, b, c, d) == a * d = c * b

\* C11: every returned WACCMetrics satisfies
\* cost_of_equity = risk_free_rate + beta * market_risk_premium,
\* cost_of_debt = (risk_free_rate + credit_spread) * (1 - tax_rate) and
\* wacc = equity_weight * cost_of_equity + debt_weight * cost_of_debt; for
\* rf 0.035, mrp 0.05, beta 1.25, tax 0.20, spread 0.025 and weights 0.75 and
\* 0.25 the formulas of the code give cost_of_equity 0.0975, cost_of_debt
\* 0.048 and wacc 0.085125.
C11_WaccFormula ==
    /\ wacc_ret # None =>
         LET m == wacc_ret[1]
         IN  /\ ~m.beta.nan /\ ~m.cost_of_equity.nan /\ ~m.wacc.nan
             /\ m.cost_of_equity.v
                  = m.risk_free_rate * 1000 + m.beta.v * m.market_risk_premium
             /\ m.cost_of_debt * 1000
                  = (m.risk_free_rate + SpreadUsed) * 1000 * (1000 - m.tax_rate)
             /\ SameRatio(m.wacc.num, m.wacc.den,
                          m.market_value_equity * m.cost_of_equity.v
                            + m.market_value_debt * m.cost_of_debt,
                          m.total_value)
    /\ CostOfEquity(35, Real(1250), 50) = Real(97500)
    /\ AfterTaxCostOfDebt(35, 25) = 48000
    /\ LET w == Wacc(Frac(3, 4), Frac(1, 4), CostOfEquity(35, Real(1250), 50),
                     AfterTaxCostOfDebt(35, 25))
       IN  ~w.nan /\ SameRatio(w.num, w.den, 85125, 1)

C11_Witness ==
    /\ wacc_ret # None
    /\ req.endpoint = "wacc"
    /\ req.risk_free_rate = Some(40)
    /\ wacc_ret[1].market_value_debt # 0
    /\ wacc_ret[1].beta.v # 0
    /\ wacc_ret[1].wacc.num # 0

\* what a borrowing cell of the balance sheet counts for
Borrowing(cell) == IF cell.k = "num" THEN cell.v ELSE 0

\* C12: market_value_debt is short_term_borrowings + long_term_borrowings of
\* the first balance-sheet row, a missing or null borrowing counting as 0,
\* negative borrowings included; total_value is market_value_equity +
\* market_value_debt; a negative debt of a magnitude below the market cap
\* passes the validation of calculate_wacc, which goes on to compute beta.
C12_MarketValueDebt ==
    /\ (CapitalStructureRead /\ ~MarketCapMissing) =>
         LET latest_balance == wacc.balance_data[1]
             debt == Borrowing(latest_balance["short_term_borrowings"])
                     + Borrowing(latest_balance["long_term_borrowings"])
         IN  /\ wacc.total_debt = debt
             /\ wacc.total_value = wacc.market_cap + debt
             /\ (debt < 0 /\ 0 - debt < wacc.market_cap) =>
                  (pc = "wacc_call_beta" /\ exc = None)
    /\ wacc_ret # None =>
         /\ wacc_ret[1].total_value
              = wacc_ret[1].market_value_equity + wacc_ret[1].market_value_debt
         /\ wacc # WaccIdle =>
              /\ wacc_ret[1].market_value_debt = wacc.total_debt
              /\ wacc_ret[1].total_value = wacc.total_value

C12_Witness ==
    /\ CapitalStructureRead
    /\ pc = "wacc_call_beta"
    /\ wacc.balance_data[1]["short_term_borrowings"].k = "absent"
    /\ wacc.balance_data[1]["long_term_borrowings"].k = "num"
    /\ wacc.total_debt < 0
    /\ 0 - wacc.total_debt < wacc.market_cap

\* C13: a WACCMetrics whose market_value_debt is 0 has debt_weight 0 and a
\* wacc equal to its cost_of_equity, whatever beta and the overrides are.
C13_NoDebtWaccIsCostOfEquity ==
    (wacc_ret # None /\ wacc_ret[1].market_value_debt = 0) =>
        /\ wacc_ret[1].debt_weight.num = 0
        /\ ~wacc_ret[1].wacc.nan
        /\ ~wacc_ret[1].cost_of_equity.nan
        /\ SameRatio(wacc_ret[1].wacc.num, wacc_ret[1].wacc.den,
                     wacc_ret[1].cost_of_equity.v, 1)

C13_Witness ==
    /\ wacc_ret # None
    /\ wacc_ret[1].market_value_debt = 0
    /\ req.market_risk_premium = Some(40)
    /\ req.credit_spread = Some(40)
    /\ wacc_ret[1].beta.v # 0
    /\ wacc_ret[1].cost_of_equity.v # 0

\* the rows are quotes of the symbol, each of a day of the requested window
QuotesOf(rows, symbol) ==
    \A i \in 1..Len(rows) :
        /\ rows[i].time \in req.start_date..req.end_date
        /\ rows[i].close = ClosePrice(symbol, rows[i].time)

\* C14: when the calculate_beta call nested in calculate_wacc returns, it
\* was made for the request's ticker and window against VNINDEX, the
\* WACCMetrics reports the beta it returned (the covariance of the two
\* return columns over the variance of the market returns) and
\* cost_of_equity is computed from that beta; when the nested call raises,
\* calculate_wacc returns nothing and raises.
C14_NestedBeta ==
    [][/\ (pc = "wacc_after_beta" /\ exc = None) =>
            /\ beta_ret # None
            /\ beta_ret[1].ticker = req.ticker
            /\ beta_ret[1].start_date = req.start_date
            /\ beta_ret[1].end_date = req.end_date
            /\ QuotesOf(stock_data, req.ticker)
            /\ QuotesOf(market_data, MarketSymbol)
            /\ beta_ret[1].beta
                 = Quotient(Comoment(StockReturns(returns), MarketReturns(returns)),
                            Comoment(MarketReturns(returns), MarketReturns(returns)))
            /\ wacc_ret' # None
            /\ wacc_ret'[1].beta = beta_ret[1].beta
            /\ wacc_ret'[1].cost_of_equity.v
                 = wacc.rf * 1000 + beta_ret[1].beta.v * wacc.mrp
       /\ (pc = "wacc_after_beta" /\ exc # None) =>
            /\ wacc_ret' = None
            /\ exc' # None
            /\ exc'[1].msg = WaccFailed
            /\ RootCause(exc') = RootCause(exc)]_vars

C14_Witness ==
    /\ pc = "route_wacc"
    /\ wacc_ret # None
    /\ beta_ret # None
    /\ wacc_ret[1].beta = beta_ret[1].beta
    /\ wacc_ret[1].beta.v # 0
    /\ beta_ret[1].data_points_used = 30

BetaCalled == pc # "beta_stock_history" /\ pc' = "beta_stock_history"

\* this step enters calculate_wacc
WaccCalled == pc # "wacc_ratio" /\ pc' = "wacc_ratio"

\* C16 (as claimed): during a /valuation request calculate_beta is entered
\* once and calculate_wacc is entered once: when either is entered, no
\* result of an earlier run of it exists in the request.
C16_EstimatorsRunOnce ==
    [][req'.endpoint = "valuation" =>
          /\ BetaCalled => (beta_ret = None /\ suite.beta_metrics = None)
          /\ WaccCalled => (wacc_ret = None /\ suite.wacc_metrics = None)]_vars

\* the exception in flight was raised by the operation: its message names
\* the operation and the ticker of the request
RaisedBy(operation) ==
    /\ exc[1].type = "Exception"
    /\ exc[1].msg = operation
    /\ exc[1].ticker = req.ticker
    /\ req.ticker \in Tickers

\* the operation has come back with a result or with an exception naming
\* it, never with both or neither
ReturnsOrRaises(result, operation) ==
    IF exc = None THEN result # None ELSE result = None /\ RaisedBy(operation)

\* C17: calculate_beta, calculate_wacc and calculate_valuation_suite come
\* back to their caller either with a result or with no result and an
\* exception that names the operation and the ticker; a failure of a fetch,
\* of a validation or of a nested operation is the root cause of that
\* exception, and an exception in flight is never dropped before the
\* handler has answered.
C17_FailuresPropagate ==
    /\ [](/\ pc \in {"route_beta", "wacc_after_beta", "suite_after_beta"} =>
               ReturnsOrRaises(beta_ret, BetaFailed)
          /\ pc \in {"route_wacc", "suite_after_wacc"} =>
               ReturnsOrRaises(wacc_ret, WaccFailed)
          /\ pc = "route_valuation" =>
               ReturnsOrRaises(suite_ret, SuiteFailed))
    /\ [][(exc # None /\ pc # "done") =>
              /\ exc' # None
              /\ RootCause(exc') = RootCause(exc)
              /\ Len(exc') >= Len(exc)
              /\ suite_ret' = None]_vars
    /\ [][(exc = None /\ exc' # None) =>
              /\ Len(exc') = 2
              /\ \/ <<RootCause(exc')>> \in ProviderErrors
                 \/ /\ RootCause(exc').type = "ValueError"
                    /\ RootCause(exc').msg \in
                         {InsufficientAligned, InsufficientReturns,
                          NoFinancialData, NoMarketCap, NoFirmValue}]_vars

C17_Witness ==
    /\ pc = "route_valuation"
    /\ exc # None
    /\ Len(exc) = 4
    /\ exc[1].msg = SuiteFailed
    /\ exc[2].msg = WaccFailed
    /\ exc[3].msg = BetaFailed
    /\ exc[4].msg = InsufficientAligned
    /\ suite_ret = None

\* C18: whatever calls have been made, with or without overrides,
\* get_market_assumptions returns tax rate 0.20, risk-free rate 0.035,
\* market risk premium 0.05, credit spread 0.025, benchmark VNINDEX and 252
\* trading days, and a calculate_wacc call without overrides reports the
\* default rates and the cost of debt that follows from them.
C18_AssumptionsStatic ==
    /\ GetMarketAssumptions
         = [vietnam_corporate_tax_rate |-> 200,
            vietnam_risk_free_rate |-> 35,
            vietnam_market_risk_premium |-> 50,
            default_credit_spread |-> 25,
            market_benchmark |-> "VNINDEX",
            trading_days_per_year |-> 252]
    /\ (wacc_ret # None /\ req.risk_free_rate = None
          /\ req.market_risk_premium = None /\ req.credit_spread = None) =>
         /\ wacc_ret[1].risk_free_rate = 35
         /\ wacc_ret[1].market_risk_premium = 50
         /\ wacc_ret[1].tax_rate = 200
         /\ wacc_ret[1].cost_of_debt = 48000

C18_Witness ==
    /\ wacc_ret # None
    /\ req.risk_free_rate = Some(40)
    /\ req.credit_spread = Some(40)
    /\ wacc_ret[1].risk_free_rate = 40
    /\ wacc_ret[1].cost_of_debt = 64000
    /\ GetMarketAssumptions.vietnam_risk_free_rate = 35
    /\ GetMarketAssumptions.default_credit_spread = 25

\* the rates a calculate_wacc call of the request resolves when no other
\* request has ever run
RatesAlone ==
    IF req.endpoint = "wacc"
    THEN [rf |-> OrDefault(req.risk_free_rate, VIETNAM_RISK_FREE_RATE),
          mrp |-> OrDefault(req.market_risk_premium, VIETNAM_MARKET_RISK_PREMIUM),
          spread |-> OrDefault(req.credit_spread, DEFAULT_CREDIT_SPREAD)]
    ELSE [rf |-> VIETNAM_RISK_FREE_RATE, mrp |-> VIETNAM_MARKET_RISK_PREMIUM,
          spread |-> DEFAULT_CREDIT_SPREAD]

Series(rows) == {<<rows[i].time, rows[i].close>> : i \in 1..Len(rows)}

\* C20 (as claimed): when calculate_beta returns for a stock history and a
\* benchmark history that hold the same quotes, with at least 30 return
\* observations, beta, correlation and r_squared are 1.0.
C20_SelfBetaIsOne ==
    (BetaHasRun /\ Series(stock_data) = Series(market_data)
        /\ Observations >= 30 /\ beta_ret # None) =>
        /\ beta_ret[1].beta = Real(1000)
        /\ beta_ret[1].correlation = Real(1000)
        /\ beta_ret[1].r_squared = Real(1000)

\* the rows rise by the same rate per mille from each trading day to the next
Rising(rows, rate) ==
    \A i \in 2..Len(rows) :
        rows[i].time = rows[i-1].time + 1 =>
            ((rows[i].close - rows[i-1].close) * 1000) \div rows[i-1].close = rate

\* C21 (as claimed): for a stock series that rises by one rate every day and
\* a benchmark series that rises by half that rate every day, with no noise
\* and at least 30 return observations, calculate_beta succeeds and reports
\* beta within 1e-3 of 2.0 and r_squared within 1e-3 of 1.0.
C21_SteadyGrowthBeta ==
    (BetaHasRun /\ Observations >= 30 /\ HolidayDates \subseteq CommonDates
        /\ Rising(SortValues(stock_data), 2) /\ Rising(SortValues(market_data), 1)
        /\ pc = "route_beta") =>
        /\ exc = None
        /\ beta_ret # None
        /\ ~beta_ret[1].beta.nan
        /\ beta_ret[1].beta.v \in 1999..2001
        /\ ~beta_ret[1].r_squared.nan
        /\ beta_ret[1].r_squared.v \in 999..1001

\* C22 (as claimed): a /beta request whose start_date or end_date is no
\* calendar date, or whose end_date is before its start_date, is answered
\* with status 422 and no price history is asked of the provider for it.
C22_DatesValidated ==
    (req.endpoint = "beta" /\ ~ValidWindow(req.start_date, req.end_date)) =>
        /\ fetched = <<>>
        /\ response # None => response[1].status = 422

\* C23: within a call of calculate_beta the provider is asked at most once
\* for each of the two histories and a failure is not retried: the stock
\* history is asked for first, when the call holds no data yet, and the
\* call does not come back to that point; when that fetch fails the call
\* ends without asking for the benchmark history; the benchmark history is
\* asked for only after the stock history has arrived, and the call ends
\* with that step; the rows are aligned only in the step in which the
\* second history arrives.
C23_FetchOnceFailFast ==
    [][/\ (fetched' # fetched /\ fetched' # <<>>) =>
            \/ /\ pc = "beta_stock_history"
               /\ fetched' = Append(fetched, req.ticker)
               /\ stock_data = <<>> /\ market_data = <<>>
               /\ aligned = <<>> /\ returns = <<>>
               /\ exc = None
               /\ pc' # "beta_stock_history"
               /\ exc' # None => pc' # "beta_market_history"
            \/ /\ pc = "beta_market_history"
               /\ fetched' = Append(fetched, MarketSymbol)
               /\ exc = None
               /\ market_data = <<>> /\ aligned = <<>> /\ returns = <<>>
               /\ pc' \notin {"beta_stock_history", "beta_market_history"}
       /\ (aligned' # aligned /\ aligned' # <<>>) =>
            /\ pc = "beta_market_history"
            /\ fetched' = Append(fetched, MarketSymbol)
            /\ aligned' = Align(stock_data, market_data')
      ]_vars

\* the stock fetch of a call has failed and the call has ended with the
\* benchmark history never asked for
C23_Witness ==
    /\ pc \in {"route_beta", "wacc_after_beta", "suite_after_beta"}
    /\ exc # None
    /\ fetched # <<>>
    /\ fetched[Len(fetched)] = req.ticker

\* C24: the BetaMetrics returned by calculate_beta does not depend on the
\* order in which the provider sends the rows of either history: it is the
\* BetaMetrics of the returns between consecutive common dates, taken from
\* the two histories put in date order.
C24_RowOrderIrrelevant ==
    (BetaHasRun /\ beta_ret # None) =>
        LET by_date == InnerMerge(SortValues(stock_data), SortValues(market_data))
        IN  /\ \A i \in 2..Len(aligned) : aligned[i-1].time < aligned[i].time
            /\ aligned = by_date
            /\ beta_ret[1] = BetaMetrics(req.ticker, DropNa(PctChange(by_date)),
                                         req.start_date, req.end_date)

\* a result computed from a stock history sent latest first and a benchmark
\* history sent in neither date order
C24_Witness ==
    /\ BetaHasRun /\ beta_ret # None
    /\ Len(stock_data) > 2 /\ Len(market_data) > 2
    /\ stock_data[1].time > stock_data[2].time
    /\ market_data[1].time > market_data[2].time
    /\ market_data[Len(market_data)].time > market_data[Len(market_data) - 1].time

\* the stock returns of the finished call are all equal: their total sum of
\* squares about the mean is zero
ConstantStockReturns ==
    /\ BetaHasRun /\ Len(returns) >= MinReturnRows
    /\ Comoment(StockReturns(returns), StockReturns(returns)) = 0

\* C25 (as claimed): when all stock returns are equal and there are at least
\* 30 return observations, calculate_beta does not fail and returns a
\* BetaMetrics whose r_squared is 0.
C25_ConstantStockRSquared ==
    ConstantStockReturns =>
        /\ exc = None
        /\ beta_ret # None
        /\ beta_ret[1].r_squared = Real(0)

\* v is the whole number of thousandths in the square root of
\* 252 * (sum of squared deviations of x from its mean) / divisor;
\* Comoment(x, x) is Len(x) times that sum
AnnualisedDeviation(v, x, divisor) ==
    /\ v * v * divisor * Len(x) <= 252 * Comoment(x, x)
    /\ 252 * Comoment(x, x) < (v + 1) * (v + 1) * divisor * Len(x)

\* C26 (as claimed): volatility_stock and volatility_market of a returned
\* BetaMetrics are the sample standard deviation (divisor N - 1) of the N
\* daily returns times sqrt(252).
C26_SampleVolatility ==
    (BetaHasRun /\ beta_ret # None) =>
        /\ AnnualisedDeviation(beta_ret[1].volatility_stock.v,
                               StockReturns(returns), Len(returns) - 1)
        /\ AnnualisedDeviation(beta_ret[1].volatility_market.v,
                               MarketReturns(returns), Len(returns) - 1)

\* C26 (amended): volatility_stock and volatility_market of a returned
\* BetaMetrics are the population standard deviation (divisor N) of the N
\* daily returns times sqrt(252): volatility^2 * N = 252 * sum of squared
\* deviations of the returns from their mean.
C26_PopulationVolatility ==
    (BetaHasRun /\ beta_ret # None) =>
        /\ ~beta_ret[1].volatility_stock.nan
        /\ ~beta_ret[1].volatility_market.nan
        /\ AnnualisedDeviation(beta_ret[1].volatility_stock.v,
                               StockReturns(returns), Len(returns))
        /\ AnnualisedDeviation(beta_ret[1].volatility_market.v,
                               MarketReturns(returns), Len(returns))

\* a result for returns that vary, where the two divisors give different
\* volatilities
C26_Witness ==
    /\ BetaHasRun /\ beta_ret # None
    /\ beta_ret[1].volatility_stock.v > 100
    /\ beta_ret[1].volatility_market.v > 0
    /\ ~AnnualisedDeviation(beta_ret[1].volatility_stock.v,
                            StockReturns(returns), Len(returns) - 1)

\* the companies of the batch whose ratios the provider delivers
Delivered ==
    SelectSeq(bench.companies, LAMBDA k : k \notin bench.down \cup bench.blank)

\* the companies of the batch that deliver a positive value of a ratio
PositiveFor(field) ==
    SelectSeq(Delivered, LAMBDA k : RatioCell(k, field).k = "num"
                                     /\ RatioCell(k, field).v > 0)

C28_RecordConsistent ==
    suite_ret # None =>
        \A i \in 1..Len(suite_ret[1]) :
            LET record == suite_ret[1][i]
            IN  record.cost_of_equity =
                    CostOfEquity(record.risk_free_rate, record.beta,
                                 record.market_risk_premium)

\* the exception in flight goes back to one of the three checks that
\* calculate_wacc makes on the financial data (lines 228, 247, 258)
ValidationFailed ==
    /\ exc # None
    /\ RootCause(exc).type = "ValueError"
    /\ RootCause(exc).msg \in {NoFinancialData, NoMarketCap, NoFirmValue}

\* the provider calls a request has made when it enters calculate_wacc: none
\* on /wacc, the two of the suite's own calculate_beta on /valuation
FetchedBeforeWacc ==
    IF req.endpoint = "valuation" THEN <<req.ticker, MarketSymbol>> ELSE <<>>

\* C29: calculate_wacc validates the financial data before the nested beta
\* computation: when a check on the data fails, no WACCMetrics is returned
\* and no price history has been asked for since calculate_wacc was
\* entered; and the nested calculate_beta is called only with both feeds
\* non-empty, a market capitalization and a total_value other than zero.
C29_ValidatedBeforeBeta ==
    /\ [](ValidationFailed =>
            /\ wacc_ret = None
            /\ fetched = FetchedBeforeWacc
            /\ pc \notin {"wacc_call_beta", "beta_stock_history",
                           "beta_market_history", "wacc_after_beta"})
    /\ [][(pc = "wacc_call_beta" /\ pc' = "beta_stock_history") =>
            /\ exc = None
            /\ fetched = FetchedBeforeWacc
            /\ wacc.ratio_data # <<>> /\ wacc.balance_data # <<>>
            /\ wacc.market_cap # 0
            /\ wacc.total_value = wacc.market_cap + wacc.total_debt
            /\ wacc.total_value # 0
          ]_vars

\* inside a request to /valuation calculate_wacc has failed on a
\* total_value of zero, with only the suite's own two fetches made
C29_Witness ==
    /\ ValidationFailed
    /\ RootCause(exc).msg = NoFirmValue
    /\ wacc.total_value = 0
    /\ req.endpoint = "valuation"
    /\ fetched = <<req.ticker, MarketSymbol>>

\* C30 (as claimed): calculate_beta never returns a BetaMetrics whose beta
\* is undefined; when the benchmark returns do not vary the call fails with
\* an error.
C30_BetaDefined ==
    /\ beta_ret # None => ~beta_ret[1].beta.nan
    /\ (BetaHasRun /\ Len(returns) >= MinReturnRows
          /\ Comoment(MarketReturns(returns), MarketReturns(returns)) = 0) =>
            (exc # None /\ beta_ret = None)

====
